---- MODULE Spec2Model ----
(***************************************************************************)
(* Model of the CSQLite shim of sqlite-extension-kit:                      *)
(*   SQLiteVirtualTable.c      the virtual-table dispatch table            *)
(*   sqlite_extension_init.c   the extension-API initialisation flag       *)
(*   sqlite_snapshot_shim.c    the snapshot stand-ins                      *)
(* The SQLiteExtensionKit_VirtualTable* capabilities are extern: each call *)
(* of one is a nondeterministic choice of the values it hands back.        *)
(***************************************************************************)
EXTENDS Integers, Sequences, FiniteSets, TLC

\* ---------------------------------------------------------------- bounds
MaxTables == 2
MaxCursors == 1
MaxMsgLen == 1
MaxArgs == 1
MaxRelease == 2

\* ------------------------------------------------------ program constants
NULL == 0
SQLITE_OK == 0
SQLITE_ERROR == 1

\* the "Virtual table error" literal of the error setter, as characters
DefaultMessage ==
    <<"V", "i", "r", "t", "u", "a", "l", " ", "t", "a", "b", "l", "e", " ",
      "e", "r", "r", "o", "r">>

\* ------------------------------------------------------------ value sets
Handles == 1..MaxTables
Cursors == 1..MaxCursors
\* int status codes: success, the generic error, and one more engine-defined
\* code (7 is SQLITE_NOMEM)
Statuses == {SQLITE_OK, SQLITE_ERROR, 7}
\* the arguments of an xCreate / xConnect call: two calls that differ in each
CreateCalls ==
    {[db |-> "dbA", context |-> "ctxA", argv |-> <<"rows", "main", "rows">>,
      pzErr |-> "pzErrA"],
     [db |-> "dbB", context |-> "ctxB", argv |-> <<"rows", "main", "t", "a">>,
      pzErr |-> "pzErrB"]}
Dbs == {c.db : c \in CreateCalls}
Chars == {"a"}
ApiTables == {1, 2}
SnapHandles == {1}
\* the arguments of an xColumn call
ColumnCalls == {[context |-> "sinkA", column |-> 0], [context |-> "sinkB", column |-> 1]}

\* a C string pointer: null, or a buffer with the characters before its NUL
NullStr == [null |-> TRUE, str |-> <<>>]
Str(s) == [null |-> FALSE, str |-> s]

RECURSIVE SeqsUpTo(_, _)
SeqsUpTo(S, n) ==
    IF n = 0 THEN {<<>>}
    ELSE LET shorter == SeqsUpTo(S, n - 1)
         IN shorter \cup {Append(s, c) : s \in shorter, c \in S}

Texts == SeqsUpTo(Chars, MaxMsgLen)
CallerMessages == {NullStr} \cup {Str(s) : s \in Texts}
\* the plan tags (idxNum, idxStr) a table implementation may choose; the first
\* is what the engine's index info holds when none is chosen
PlanTags ==
    {[idxNum |-> 0, idxStr |-> NullStr],
     [idxNum |-> 1, idxStr |-> Str(<<"a">>)],
     [idxNum |-> 2, idxStr |-> Str(<<>>)]}
ArgVectors == SeqsUpTo({"v"}, MaxArgs)

ReleaseKeys ==
    ({"Disconnect", "Destroy"} \X Handles) \cup ({"Close"} \X Cursors)

VARIABLES
    tab,            \* per SQLiteVirtualTable: lifecycle state, made by xCreate?
    cur,            \* per SQLiteVirtualCursor: lifecycle state, owning table
    ppVTab,         \* the engine's sqlite3_vtab* output slot
    ppCursor,       \* the engine's sqlite3_vtab_cursor* output slot
    info,           \* the plan tag of the engine's sqlite3_index_info
    zErrMsg,        \* per table: base.zErrMsg
    liveBufs,       \* message buffers allocated and not yet freed
    sqlite3_api,    \* the API table pointer of SQLITE_EXTENSION_INIT1
    gSQLiteExtensionKitInitialized,
    engCalls,       \* release entry points the engine has called, per handle
    capCalls,       \* release capabilities the shim has called, per handle
    crashed,        \* a capability was run on released memory and faulted
    lastOp          \* the last call: entry point, arguments, forwarded call, result

vars == <<tab, cur, ppVTab, ppCursor, info, zErrMsg, liveBufs, sqlite3_api,
          gSQLiteExtensionKitInitialized, engCalls, capCalls, crashed, lastOp>>

tableVars == <<tab, cur, ppVTab, ppCursor, info, engCalls, capCalls, crashed>>
errVars == <<zErrMsg, liveBufs>>
initVars == <<sqlite3_api, gSQLiteExtensionKitInitialized>>

Init ==
    /\ tab = [h \in Handles |-> [st |-> "unused", created |-> FALSE]]
    /\ cur = [c \in Cursors |-> [st |-> "unused", table |-> NULL]]
    /\ ppVTab = NULL
    /\ ppCursor = NULL
    /\ info = [idxNum |-> 0, idxStr |-> NullStr]
    /\ zErrMsg = [h \in Handles |-> NullStr]
    /\ liveBufs = 0
    /\ sqlite3_api = NULL
    /\ gSQLiteExtensionKitInitialized = 0
    /\ engCalls = [k \in ReleaseKeys |-> 0]
    /\ capCalls = [k \in ReleaseKeys |-> 0]
    /\ crashed = FALSE
    /\ lastOp = [op |-> "none"]

\* ------------------------------------------------- the dispatch entry points
\* Each operator is one static function of SQLiteVirtualTable.c: from the
\* engine's arguments and the values the capability hands back (rc, and what
\* it stored through its output pointer) it gives the capability call made
\* (function and positional arguments) and what goes back to the engine.

\* swiftCreate with every failure reported as the generic error
swiftCreate_remapped(db, context, argc, argv, slot, pzErr, isCreate, rc, out) ==
    LET table == IF out.wrote THEN out.val ELSE NULL
    IN [fn     |-> "Create",
        args   |-> <<context, db, argc, argv, "&table", pzErr, isCreate>>,
        ppVTab |-> IF rc = SQLITE_OK THEN table ELSE slot,
        ret    |-> IF rc = SQLITE_OK THEN SQLITE_OK ELSE SQLITE_ERROR]

\* swiftCreate storing the handle whatever the status
swiftCreate_alwaysStores(db, context, argc, argv, slot, pzErr, isCreate, rc, out) ==
    LET table == IF out.wrote THEN out.val ELSE NULL
    IN [fn     |-> "Create",
        args   |-> <<context, db, argc, argv, "&table", pzErr, isCreate>>,
        ppVTab |-> table,
        ret    |-> rc]

swiftCreate(db, context, argc, argv, slot, pzErr, isCreate, rc, out) ==
    LET table == IF out.wrote THEN out.val ELSE NULL
    IN [fn     |-> "Create",
        args   |-> <<context, db, argc, argv, "&table", pzErr, isCreate>>,
        ppVTab |-> IF rc = SQLITE_OK THEN table ELSE slot,
        ret    |-> rc]

swiftCreateThunk(db, context, argc, argv, slot, pzErr, rc, out) ==
    swiftCreate(db, context, argc, argv, slot, pzErr, 1, rc, out)

\* swiftConnectThunk passing the create flag
swiftConnectThunk_asCreate(db, context, argc, argv, slot, pzErr, rc, out) ==
    swiftCreate(db, context, argc, argv, slot, pzErr, 1, rc, out)

swiftConnectThunk(db, context, argc, argv, slot, pzErr, rc, out) ==
    swiftCreate(db, context, argc, argv, slot, pzErr, 0, rc, out)

swiftBestIndex(pVTab, pInfo, rc) ==
    [fn |-> "BestIndex", args |-> <<pVTab, pInfo>>, ret |-> rc]

swiftDisconnect(pVTab, rc) ==
    [fn |-> "Disconnect", args |-> <<pVTab>>, ret |-> rc]

\* swiftDestroy forwarding to the disconnect capability
swiftDestroy_asDisconnect(pVTab, rc) ==
    [fn |-> "Disconnect", args |-> <<pVTab>>, ret |-> rc]

swiftDestroy(pVTab, rc) ==
    [fn |-> "Destroy", args |-> <<pVTab>>, ret |-> rc]

swiftOpen(pVTab, slot, rc, out) ==
    LET cursor == IF out.wrote THEN out.val ELSE NULL
    IN [fn       |-> "Open",
        args     |-> <<pVTab, "&cursor">>,
        ppCursor |-> IF rc = SQLITE_OK THEN cursor ELSE slot,
        ret      |-> rc]

swiftClose(pCursor, rc) ==
    [fn |-> "Close", args |-> <<pCursor>>, ret |-> rc]

\* swiftFilter with the two integers in each other's place
swiftFilter_swapped(pCursor, idxNum, idxStr, argc, argv, rc) ==
    [fn |-> "Filter", args |-> <<pCursor, argc, idxStr, argv, idxNum>>, ret |-> rc]

\* xFilter has (cursor, idxNum, idxStr, argc, argv); the capability is
\* declared (cursor, idxNum, idxStr, argv, argc)
swiftFilter(pCursor, idxNum, idxStr, argc, argv, rc) ==
    [fn |-> "Filter", args |-> <<pCursor, idxNum, idxStr, argv, argc>>, ret |-> rc]

swiftNext(pCursor, rc) ==
    [fn |-> "Next", args |-> <<pCursor>>, ret |-> rc]

swiftEof(pCursor, rc) ==
    [fn |-> "Eof", args |-> <<pCursor>>, ret |-> rc]

swiftColumn(pCursor, context, column, rc) ==
    [fn |-> "Column", args |-> <<pCursor, context, column>>, ret |-> rc]

swiftRowid(pCursor, rowid, rc) ==
    [fn |-> "Rowid", args |-> <<pCursor, rowid>>, ret |-> rc]

\* The parameters of SQLiteExtensionKit_VirtualTableFilter, by position
FilterParams(args) ==
    [cursor |-> args[1], idxNum |-> args[2], idxStr |-> args[3],
     argv |-> args[4], argc |-> args[5]]

\* The parameters of SQLiteExtensionKit_VirtualTableCreate, by position
CreateParams(args) ==
    [context |-> args[1], db |-> args[2], argc |-> args[3], argv |-> args[4],
     outTable |-> args[5], pzErr |-> args[6], isCreate |-> args[7]]

\* What a capability leaves in its output pointer: nothing, or a handle
NoWrite == [wrote |-> FALSE, val |-> NULL]
Outs(S) == {NoWrite} \cup {[wrote |-> TRUE, val |-> x] : x \in S}

\* One more call of a release capability on the handle it was given
CountCall(calls, fn, handle) ==
    [calls EXCEPT ![<<fn, handle>>] = @ + 1]

\* The handle the factory capability can leave in its output pointer is an
\* object it has just made: the next unused address (objects are numbered in
\* the order they are made, and no address is handed out twice).
Lowest(S) == {x \in S : \A y \in S : x <= y}
FreshTables == Lowest({h \in Handles : tab[h].st = "unused"})
FreshCursors == Lowest({c \in Cursors : cur[c].st = "unused"})
OpenCursorsOf(h) == {c \in Cursors : cur[c].table = h /\ cur[c].st \in {"open", "filtered"}}

\* xCreate / xConnect
Instantiate(thunk, context, db, argv, pzErr, rc, out) ==
    /\ ~crashed
    /\ rc = SQLITE_OK => out.wrote /\ out.val \in FreshTables
    /\ rc # SQLITE_OK => ~out.wrote \/ out.val \in FreshTables
    /\ LET r == IF thunk = "create"
                THEN swiftCreateThunk(db, context, Len(argv), argv, ppVTab, pzErr, rc, out)
                ELSE swiftConnectThunk(db, context, Len(argv), argv, ppVTab, pzErr, rc, out)
           p == CreateParams(r.args)
       IN /\ ppVTab' = r.ppVTab
          /\ tab' = IF rc = SQLITE_OK
                    THEN [tab EXCEPT ![out.val] = [st |-> "connected", created |-> (p.isCreate = 1)]]
                    ELSE tab
          /\ lastOp' = [op |-> thunk, in |-> <<db, context, Len(argv), argv, pzErr>>,
                        slotBefore |-> ppVTab, out |-> out,
                        call |-> r, capRet |-> rc, ret |-> r.ret]
    /\ UNCHANGED <<cur, ppCursor, info, engCalls, capCalls, crashed>>
    /\ UNCHANGED <<errVars, initVars>>

Create ==
    \E c \in CreateCalls, rc \in Statuses, out \in Outs(Handles) :
        Instantiate("create", c.context, c.db, c.argv, c.pzErr, rc, out)

Connect ==
    \E c \in CreateCalls, rc \in Statuses, out \in Outs(Handles) :
        Instantiate("connect", c.context, c.db, c.argv, c.pzErr, rc, out)

\* xBestIndex: the capability fills the plan tag of the engine's index info
BestIndex ==
    \E h \in Handles, rc \in Statuses, tag \in PlanTags :
        /\ ~crashed
        /\ tab[h].st = "connected"
        /\ LET r == swiftBestIndex(h, "info", rc)
           IN lastOp' = [op |-> "planIndex", call |-> r, capRet |-> rc, ret |-> r.ret,
                         tag |-> tag]
        /\ info' = tag
        /\ UNCHANGED <<tab, cur, ppVTab, ppCursor, engCalls, capCalls, crashed>>
        /\ UNCHANGED <<errVars, initVars>>

\* xDisconnect, once per table and after its cursors are closed
Disconnect ==
    \E h \in Handles, rc \in Statuses :
        /\ ~crashed
        /\ tab[h].st = "connected"
        /\ OpenCursorsOf(h) = {}
        /\ LET r == swiftDisconnect(h, rc)
           IN /\ capCalls' = CountCall(capCalls, r.fn, r.args[1])
              /\ lastOp' = [op |-> "disconnect", handle |-> h, call |-> r,
                            capRet |-> rc, ret |-> r.ret]
        /\ engCalls' = CountCall(engCalls, "Disconnect", h)
        /\ tab' = [tab EXCEPT ![h] = [st |-> "released", created |-> FALSE]]
        /\ UNCHANGED <<cur, ppVTab, ppCursor, info, crashed>>
        /\ UNCHANGED <<errVars, initVars>>

\* xDestroy, in place of xDisconnect when a created table is dropped
Destroy ==
    \E h \in Handles, rc \in Statuses :
        /\ ~crashed
        /\ tab[h].st = "connected"
        /\ tab[h].created
        /\ OpenCursorsOf(h) = {}
        /\ LET r == swiftDestroy(h, rc)
           IN /\ capCalls' = CountCall(capCalls, r.fn, r.args[1])
              /\ lastOp' = [op |-> "destroy", handle |-> h, call |-> r,
                            capRet |-> rc, ret |-> r.ret]
        /\ engCalls' = CountCall(engCalls, "Destroy", h)
        /\ tab' = [tab EXCEPT ![h] = [st |-> "released", created |-> FALSE]]
        /\ UNCHANGED <<cur, ppVTab, ppCursor, info, crashed>>
        /\ UNCHANGED <<errVars, initVars>>

\* xOpen
Open ==
    \E h \in Handles, rc \in Statuses, out \in Outs(Cursors) :
        /\ ~crashed
        /\ tab[h].st = "connected"
        /\ rc = SQLITE_OK => out.wrote /\ out.val \in FreshCursors
        /\ rc # SQLITE_OK => ~out.wrote \/ out.val \in FreshCursors
        /\ LET r == swiftOpen(h, ppCursor, rc, out)
           IN /\ ppCursor' = r.ppCursor
              /\ lastOp' = [op |-> "open", handle |-> h, slotBefore |-> ppCursor,
                            out |-> out, call |-> r, capRet |-> rc, ret |-> r.ret]
        /\ cur' = IF rc = SQLITE_OK
                  THEN [cur EXCEPT ![out.val] = [st |-> "open", table |-> h]]
                  ELSE cur
        /\ UNCHANGED <<tab, ppVTab, info, engCalls, capCalls, crashed>>
        /\ UNCHANGED <<errVars, initVars>>

\* xClose, once per cursor
Close ==
    \E c \in Cursors, rc \in Statuses :
        /\ ~crashed
        /\ cur[c].st \in {"open", "filtered"}
        /\ LET r == swiftClose(c, rc)
           IN /\ capCalls' = CountCall(capCalls, r.fn, r.args[1])
              /\ lastOp' = [op |-> "close", handle |-> c, call |-> r,
                            capRet |-> rc, ret |-> r.ret]
        /\ engCalls' = CountCall(engCalls, "Close", c)
        /\ cur' = [cur EXCEPT ![c] = [st |-> "closed", table |-> NULL]]
        /\ UNCHANGED <<tab, ppVTab, ppCursor, info, crashed>>
        /\ UNCHANGED <<errVars, initVars>>

\* xFilter: the engine echoes the plan tag that xBestIndex left in its index info
Filter ==
    \E c \in Cursors, argv \in ArgVectors, rc \in Statuses :
        /\ ~crashed
        /\ cur[c].st \in {"open", "filtered"}
        /\ LET r == swiftFilter(c, info.idxNum, info.idxStr, Len(argv), argv, rc)
           IN lastOp' = [op |-> "filter",
                         in |-> [cursor |-> c, idxNum |-> info.idxNum,
                                 idxStr |-> info.idxStr, argc |-> Len(argv),
                                 argv |-> argv],
                         call |-> r, capRet |-> rc, ret |-> r.ret]
        /\ cur' = [cur EXCEPT ![c].st = "filtered"]
        /\ UNCHANGED <<tab, ppVTab, ppCursor, info, engCalls, capCalls, crashed>>
        /\ UNCHANGED <<errVars, initVars>>

\* xNext, xEof, xColumn, xRowid on a cursor that xFilter has positioned
Scan(op, c, r, rc) ==
    /\ ~crashed
    /\ cur[c].st = "filtered"
    /\ lastOp' = [op |-> op, handle |-> c, call |-> r, capRet |-> rc, ret |-> r.ret]
    /\ UNCHANGED tableVars
    /\ UNCHANGED <<errVars, initVars>>

Advance ==
    \E c \in Cursors, rc \in Statuses : Scan("advance", c, swiftNext(c, rc), rc)

AtEnd ==
    \E c \in Cursors, rc \in {0, 1} : Scan("atEnd", c, swiftEof(c, rc), rc)

ReadColumn ==
    \E c \in Cursors, a \in ColumnCalls, rc \in Statuses :
        Scan("readColumn", c, swiftColumn(c, a.context, a.column, rc), rc)

ReadRowId ==
    \E c \in Cursors, rc \in Statuses :
        Scan("readRowId", c, swiftRowid(c, "rowid", rc), rc)

\* ------------------------------------------------------- the error setter
RECURSIVE CopyChars(_)
CopyChars(s) ==
    IF s = <<>> THEN <<>> ELSE <<Head(s)>> \o CopyChars(Tail(s))

\* sqlite3_mprintf("%s", text): a new buffer holding text, or NULL when the
\* allocation fails
sqlite3_mprintf(text, allocOk) ==
    IF allocOk THEN Str(CopyChars(text)) ELSE NullStr

\* The setter appending to the stored message instead of replacing it
SetError_appends(vtab, old, seen, allocOk) ==
    IF vtab = NULL
    THEN [zErrMsg |-> old, freed |-> 0, allocated |-> 0]
    ELSE LET new == sqlite3_mprintf(old.str \o (IF ~seen.null THEN seen.str ELSE DefaultMessage),
                                    allocOk)
         IN [zErrMsg |-> new,
             freed |-> IF old.null THEN 0 ELSE 1,
             allocated |-> IF new.null THEN 0 ELSE 1]

\* The setter without its null-handle guard
SetError_unguarded(vtab, old, seen, allocOk) ==
    LET new == sqlite3_mprintf(IF ~seen.null THEN seen.str ELSE DefaultMessage,
                               allocOk)
    IN [zErrMsg |-> new,
        freed |-> IF old.null THEN 0 ELSE 1,
        allocated |-> IF new.null THEN 0 ELSE 1]

\* SQLiteExtensionKit_VirtualTableSetError: old is vtab->zErrMsg before the
\* call, seen is what the message pointer reads as once old has been freed
SQLiteExtensionKit_VirtualTableSetError(vtab, old, seen, allocOk) ==
    IF vtab = NULL
    THEN [zErrMsg |-> old, freed |-> 0, allocated |-> 0]
    ELSE LET new == sqlite3_mprintf(IF ~seen.null THEN seen.str ELSE DefaultMessage,
                                    allocOk)
         IN [zErrMsg |-> new,
             freed |-> IF old.null THEN 0 ELSE 1,
             allocated |-> IF new.null THEN 0 ELSE 1]

\* The setter on a live table. The message is the caller's own string, or
\* (alias) the very buffer vtab->zErrMsg points to: that buffer is freed
\* before it is formatted, so what is read from it is indeterminate.
SetError ==
    \E h \in Handles, message \in CallerMessages, alias \in BOOLEAN,
       garbage \in Texts, allocOk \in BOOLEAN :
        /\ ~crashed
        /\ tab[h].st = "connected"
        /\ alias => ~zErrMsg[h].null /\ message = zErrMsg[h]
        /\ ~alias => garbage = <<>>
        /\ LET seen == IF alias THEN Str(garbage) ELSE message
               r == SQLiteExtensionKit_VirtualTableSetError(h, zErrMsg[h], seen, allocOk)
           IN /\ zErrMsg' = [zErrMsg EXCEPT ![h] = r.zErrMsg]
              /\ liveBufs' = liveBufs - r.freed + r.allocated
              /\ lastOp' = [op |-> "setError", vtab |-> h, message |-> message,
                            alias |-> alias, allocOk |-> allocOk,
                            before |-> zErrMsg[h]]
        /\ UNCHANGED tableVars
        /\ UNCHANGED initVars

\* The setter with no table (a failure before a handle exists)
SetErrorNull ==
    \E message \in CallerMessages, allocOk \in BOOLEAN :
        /\ ~crashed
        /\ LET r == SQLiteExtensionKit_VirtualTableSetError(NULL, NullStr, message, allocOk)
           IN /\ liveBufs' = liveBufs - r.freed + r.allocated
              /\ lastOp' = [op |-> "setError", vtab |-> NULL, message |-> message,
                            alias |-> FALSE, allocOk |-> allocOk, before |-> NullStr]
        /\ UNCHANGED zErrMsg
        /\ UNCHANGED tableVars
        /\ UNCHANGED initVars

\* ------------------------------------------------ extension initialisation
\* The initialiser raising the flag whatever it is given
Initialize_alwaysSet(pApi) ==
    [sqlite3_api |-> pApi, flag |-> 1]

SQLiteExtensionKitInitialize(pApi) ==
    [sqlite3_api |-> pApi, flag |-> IF pApi # NULL THEN 1 ELSE 0]

SQLiteExtensionKitIsInitialized(flag) == flag

Initialize ==
    \E pApi \in ApiTables \cup {NULL} :
        /\ ~crashed
        /\ LET r == SQLiteExtensionKitInitialize(pApi)
           IN /\ sqlite3_api' = r.sqlite3_api
              /\ gSQLiteExtensionKitInitialized' = r.flag
        /\ lastOp' = [op |-> "initialize", pApi |-> pApi,
                      flagBefore |-> gSQLiteExtensionKitInitialized]
        /\ UNCHANGED tableVars
        /\ UNCHANGED errVars

IsInitialized ==
    /\ ~crashed
    /\ lastOp' = [op |-> "isInitialized",
                  ret |-> SQLiteExtensionKitIsInitialized(gSQLiteExtensionKitInitialized)]
    /\ UNCHANGED tableVars
    /\ UNCHANGED <<errVars, initVars>>

\* ---------------------------------------------------- snapshot stand-ins
\* ret is <<status>>, or <<>> for a function that returns nothing; pointee is
\* what the caller's sqlite3_snapshot* variable holds after the call. A call
\* is recorded with its pointer arguments before and after it; for get these
\* are <<ppSnapshot, *ppSnapshot>>
sqlite3_snapshot_open(db, zSchema, pSnapshot) ==
    [ret |-> <<SQLITE_ERROR>>]

\* The get stand-in leaving the caller's variable as it found it
snapshot_get_noSentinel(db, zSchema, ppSnapshot, pointee) ==
    [ret |-> <<SQLITE_ERROR>>, pointee |-> pointee]

sqlite3_snapshot_get(db, zSchema, ppSnapshot, pointee) ==
    [ret |-> <<SQLITE_ERROR>>,
     pointee |-> IF ppSnapshot # NULL THEN NULL ELSE pointee]

sqlite3_snapshot_free(pSnapshot) ==
    [ret |-> <<>>]

sqlite3_snapshot_cmp(p1, p2) ==
    [ret |-> <<SQLITE_ERROR>>]

Stub(op, r, before, after) ==
    /\ ~crashed
    /\ lastOp' = [op |-> op, ret |-> r.ret, before |-> before, after |-> after]
    /\ UNCHANGED tableVars
    /\ UNCHANGED <<errVars, initVars>>

SnapshotOpen ==
    \E db \in Dbs, p \in SnapHandles \cup {NULL} :
        Stub("snapshot_open", sqlite3_snapshot_open(db, "main", p), p, p)

\* ppSnapshot is null, or the address of a caller variable holding pointee
SnapshotGet ==
    \E db \in Dbs, ppSnapshot \in {NULL, 1}, pointee \in SnapHandles \cup {NULL} :
        LET r == sqlite3_snapshot_get(db, "main", ppSnapshot, pointee)
        IN Stub("snapshot_get", r, <<ppSnapshot, pointee>>, <<ppSnapshot, r.pointee>>)

SnapshotFree ==
    \E p \in SnapHandles \cup {NULL} :
        Stub("snapshot_free", sqlite3_snapshot_free(p), p, p)

SnapshotCmp ==
    \E p1 \in SnapHandles \cup {NULL}, p2 \in SnapHandles \cup {NULL} :
        Stub("snapshot_cmp", sqlite3_snapshot_cmp(p1, p2), <<p1, p2>>, <<p1, p2>>)

\* ------------------------------------------------------- a misbehaving caller
\* xDisconnect again on a table whose release has already returned. The shim
\* forwards it like any other; the capability then runs on released memory,
\* which may fault or return anything.
DoubleDisconnect ==
    \E h \in Handles, rc \in Statuses, fault \in BOOLEAN :
        /\ ~crashed
        /\ tab[h].st = "released"
        /\ engCalls[<<"Disconnect", h>>] + engCalls[<<"Destroy", h>>] < MaxRelease
        /\ LET r == swiftDisconnect(h, rc)
           IN /\ capCalls' = CountCall(capCalls, r.fn, r.args[1])
              /\ lastOp' = [op |-> "disconnect", handle |-> h, call |-> r,
                            capRet |-> rc, ret |-> r.ret]
        /\ engCalls' = CountCall(engCalls, "Disconnect", h)
        /\ crashed' = fault
        /\ UNCHANGED <<tab, cur, ppVTab, ppCursor, info>>
        /\ UNCHANGED <<errVars, initVars>>

\* ------------------------------------------------------------- properties
DispatchOps ==
    {"create", "connect", "planIndex", "disconnect", "destroy", "open", "close",
     "filter", "advance", "atEnd", "readColumn", "readRowId"}

SnapshotOps == {"snapshot_open", "snapshot_get", "snapshot_free", "snapshot_cmp"}

TableReleases(h) == capCalls[<<"Disconnect", h>>] + capCalls[<<"Destroy", h>>]

\* C1: every dispatch entry point returns to the engine exactly the status
\* its capability returned: zero stays zero, no non-zero value is changed.
C1_StatusPropagated ==
    lastOp.op \in DispatchOps => lastOp.ret = lastOp.capRet

C1_Witness ==
    /\ lastOp.op = "create"
    /\ lastOp.capRet = 7
    /\ lastOp.ret = 7

\* C2: a create/connect that returns non-zero leaves the engine's handle slot
\* as it was before the call; the slot gets the factory's handle only on 0.
C2_SlotOnlyOnSuccess ==
    lastOp.op \in {"create", "connect"} =>
        /\ lastOp.ret # SQLITE_OK => ppVTab = lastOp.slotBefore
        /\ lastOp.ret = SQLITE_OK => lastOp.out.wrote /\ ppVTab = lastOp.out.val

C2_Witness ==
    /\ lastOp.op \in {"create", "connect"}
    /\ lastOp.ret # SQLITE_OK
    /\ lastOp.out.wrote
    /\ lastOp.slotBefore # NULL
    /\ lastOp.out.val # lastOp.slotBefore
    /\ ppVTab = lastOp.slotBefore

\* C3 as stated: after an error-setter call on a non-null handle the error
\* slot holds exactly the message M of that call.
C3_SlotIsLastMessage ==
    (lastOp.op = "setError" /\ lastOp.vtab # NULL) =>
        zErrMsg[lastOp.vtab] = lastOp.message

\* C3 amended: after an error-setter call on a non-null handle the slot holds
\* a copy of the call's message M alone when M is a non-null string of the
\* caller's and the allocation succeeds, the default text when M is null, and
\* null when the allocation fails; the message stored before is released in
\* each case and never appended to.
C3_SlotReplaced ==
    /\ (lastOp.op = "setError" /\ lastOp.vtab # NULL) =>
        LET slot == zErrMsg[lastOp.vtab]
        IN /\ ~lastOp.allocOk => slot = NullStr
           /\ (lastOp.allocOk /\ ~lastOp.alias /\ ~lastOp.message.null) =>
                  slot = lastOp.message
           /\ (lastOp.allocOk /\ lastOp.message.null) => slot = Str(DefaultMessage)
           /\ lastOp.allocOk => ~slot.null
    /\ liveBufs = Cardinality({h \in Handles : ~zErrMsg[h].null})

C3_Witness ==
    /\ lastOp.op = "setError"
    /\ lastOp.vtab # NULL
    /\ ~lastOp.before.null
    /\ lastOp.before.str # <<>>
    /\ ~lastOp.message.null
    /\ lastOp.message # lastOp.before
    /\ lastOp.allocOk
    /\ ~lastOp.alias
    /\ zErrMsg[lastOp.vtab] = lastOp.message

\* C4: the error setter called with a null handle, whatever the message,
\* changes nothing: no error slot is written, nothing is allocated or freed.
C4_NullHandleNoOp ==
    [][(lastOp'.op = "setError" /\ lastOp'.vtab = NULL) =>
          UNCHANGED <<tableVars, errVars, initVars>>]_vars

C4_Witness ==
    /\ lastOp.op = "setError"
    /\ lastOp.vtab = NULL
    /\ lastOp.message.null
    /\ \E h \in Handles : tab[h].st = "connected" /\ ~zErrMsg[h].null

\* C5: the filter capability receives the cursor, the numeric and string plan
\* tag, the argument values and the argument count exactly as the engine
\* passed them, so the tag left by planIndex arrives unchanged.
C5_FilterArgsForwarded ==
    lastOp.op = "filter" =>
        LET p == FilterParams(lastOp.call.args)
        IN /\ lastOp.call.fn = "Filter"
           /\ p.cursor = lastOp.in.cursor
           /\ p.idxNum = lastOp.in.idxNum
           /\ p.idxStr = lastOp.in.idxStr
           /\ p.argv = lastOp.in.argv
           /\ p.argc = lastOp.in.argc
           /\ p.idxNum = info.idxNum
           /\ p.idxStr = info.idxStr

C5_Witness ==
    /\ lastOp.op = "filter"
    /\ lastOp.in.idxNum = 1
    /\ ~lastOp.in.idxStr.null
    /\ lastOp.in.argc = 0
    /\ FilterParams(lastOp.call.args).idxNum = 1
    /\ FilterParams(lastOp.call.args).idxStr = Str(<<"a">>)

\* C6: create and connect call the one factory with the same context,
\* connection, declaration arguments and error slot they were given, create
\* with isCreate = 1 and connect with isCreate = 0, and both store the handle
\* in the same way on success.
C6_SharedFactory ==
    lastOp.op \in {"create", "connect"} =>
        LET p == CreateParams(lastOp.call.args)
        IN /\ lastOp.call.fn = "Create"
           /\ p.isCreate = (IF lastOp.op = "create" THEN 1 ELSE 0)
           /\ <<p.db, p.context, p.argc, p.argv, p.pzErr>> = lastOp.in
           /\ lastOp.ret = SQLITE_OK =>
                  /\ ppVTab = lastOp.out.val
                  /\ tab[ppVTab].st = "connected"
                  /\ tab[ppVTab].created = (lastOp.op = "create")

C6_Witness ==
    /\ lastOp.op = "connect"
    /\ lastOp.ret = SQLITE_OK
    /\ CreateParams(lastOp.call.args).isCreate = 0
    /\ CreateParams(lastOp.call.args).context = "ctxB"
    /\ \E h \in Handles : tab[h].st = "connected" /\ tab[h].created

\* C8: with an engine that keeps its discipline, each release call of the
\* engine makes exactly one call of the matching release capability on the
\* same handle, so a table is released exactly once (by disconnect or by
\* destroy, not both) and a cursor exactly once (by close).
C8_ReleasedOnce ==
    /\ \A k \in ReleaseKeys : capCalls[k] = engCalls[k]
    /\ \A h \in Handles :
          TableReleases(h) = (IF tab[h].st = "released" THEN 1 ELSE 0)
    /\ \A c \in Cursors :
          capCalls[<<"Close", c>>] = (IF cur[c].st = "closed" THEN 1 ELSE 0)

C8_Witness ==
    /\ \E h \in Handles : capCalls[<<"Destroy", h>>] = 1
    /\ \E h \in Handles : capCalls[<<"Disconnect", h>>] = 1
    /\ \E c \in Cursors : capCalls[<<"Close", c>>] = 1

\* C9: a second disconnect on the same table does not crash and never
\* operates on a handle whose releasing operation has already returned.
C9_DoubleDisconnectSafe ==
    /\ ~crashed
    /\ \A h \in Handles : TableReleases(h) <= 1

C10_FlagFollowsLastCall ==
    /\ gSQLiteExtensionKitInitialized = 0
    /\ sqlite3_api = NULL
    /\ [][/\ lastOp'.op = "initialize" =>
               /\ sqlite3_api' = lastOp'.pApi
               /\ gSQLiteExtensionKitInitialized' = (IF lastOp'.pApi # NULL THEN 1 ELSE 0)
          /\ lastOp'.op # "initialize" => UNCHANGED initVars
          /\ lastOp'.op = "isInitialized" =>
               /\ lastOp'.ret = gSQLiteExtensionKitInitialized
               /\ UNCHANGED <<tableVars, errVars, initVars>>]_vars

C10_Witness ==
    /\ lastOp.op = "initialize"
    /\ lastOp.pApi = NULL
    /\ lastOp.flagBefore = 1
    /\ gSQLiteExtensionKitInitialized = 0
    /\ sqlite3_api = NULL

\* The dispatch table, driven by an engine that keeps its call discipline
Next ==
    \/ Create
    \/ Connect
    \/ BestIndex
    \/ Disconnect
    \/ Destroy
    \/ Open
    \/ Close
    \/ Filter
    \/ Advance
    \/ AtEnd
    \/ ReadColumn
    \/ ReadRowId

\* The dispatch table, driven by a caller that may disconnect a table twice
NextMisuse ==
    \/ Next
    \/ DoubleDisconnect

\* The error setter on the tables the factory has made, the initialisation
\* flag and the snapshot stand-ins
NextSupport ==
    \/ Create
    \/ SetError
    \/ SetErrorNull
    \/ Initialize
    \/ IsInitialized
    \/ SnapshotOpen
    \/ SnapshotGet
    \/ SnapshotFree
    \/ SnapshotCmp

Spec == Init /\ [][Next]_vars

SpecMisuse == Init /\ [][NextMisuse]_vars

SpecSupport == Init /\ [][NextSupport]_vars
====
